---------------------------- MODULE Spec2Model ----------------------------
(***************************************************************************)
(* A model of the Kripke-model class and of the modal formula evaluator of *)
(* src/kripke_model.py.                                                    *)
(*                                                                         *)
(* The state is one KripkeModel object (its fields W, R, V and             *)
(* _default_valuation), the record of the last call made on it, and the    *)
(* program counter and local variables of a method that is modelled step   *)
(* by step (make_relation_transitive, is_world_reachable).                 *)
(*                                                                         *)
(* Python values are modelled as follows:                                  *)
(*   str                 a TLA+ string; NotAString stands for any object   *)
(*                       that is not a str                                 *)
(*   set of str          a set of strings                                  *)
(*   tuple (a, b)        the tuple <<a, b>>                                *)
(*   list                a sequence                                        *)
(*   dict                a function whose DOMAIN is the set of keys        *)
(*   a raised exception  the field err of a result, "none" when the call   *)
(*                       returned                                          *)
(*   a returned value    the field ret of a result: <<v>>, and <<>> when   *)
(*                       the call returned None or raised                  *)
(***************************************************************************)
EXTENDS Integers, Sequences, FiniteSets, TLC

VARIABLES
    W,                  \* self.W: the set of worlds
    R,                  \* self.R: the set of pairs (source, target)
    V,                  \* self.V: dict world -> dict proposition -> bool
    default_valuation,  \* self._default_valuation
    last,               \* the last call on the model: [op, args, err, ret]
    calls,              \* the number of calls made on the model so far
    pc,                 \* position inside the method that runs step by step
    frame               \* the local variables of that method

vars == <<W, R, V, default_valuation, last, calls, pc, frame>>

model_vars == <<W, R, V, default_valuation>>

(***************************************************************************)
(* Bounds of the model and the sets the inputs are drawn from.             *)
(***************************************************************************)
\* the length of the sequences of calls made on one model
MaxCalls == 7

\* the largest relation to_dict is called on: the orders its list of pairs
\* can have are all enumerated
MaxList == 3

\* the largest number of connectives of the formulas that are evaluated
MaxConn == 2

\* the largest max_steps is_world_reachable is called with, the default aside
MaxSteps == 3

\* the default of the parameter max_steps of is_world_reachable
DefaultMaxSteps == 100

\* the largest number of pairs in the list R of a snapshot given to from_dict
MaxSnapPairs == 2

\* the world identifiers the calls are made with
WorldIds == {"w1", "w2", "w3"}

\* the proposition names the calls are made with
Props == {"p"}

\* an argument that is not an instance of str
NotAString == "<not a str>"

isinstance_str(x) == x # NotAString

(***************************************************************************)
(* Python containers.                                                      *)
(***************************************************************************)
EmptyDict == <<>>

Range(s) == {s[i] : i \in DOMAIN s}

RECURSIVE ListsOf(_)
\* All the lists list(S) can be: the elements of the set S, each once, in
\* any order (the iteration order of a Python set is arbitrary).
ListsOf(S) ==
    IF S = {} THEN {<<>>}
    ELSE UNION {{<<x>> \o l : l \in ListsOf(S \ {x})} : x \in S}

\* d[k] = v
DictSet(d, k, v) == [x \in DOMAIN d \cup {k} |-> IF x = k THEN v ELSE d[x]]

\* del d[k], for k a key of d
DictDel(d, k) == [x \in DOMAIN d \ {k} |-> d[x]]

\* d.get(k, dflt)
DictGet(d, k, dflt) == IF k \in DOMAIN d THEN d[k] ELSE dflt

Self == [W |-> W, R |-> R, V |-> V, default_valuation |-> default_valuation]

Call(op, args, err, ret) == [op |-> op, args |-> args, err |-> err, ret |-> ret]

\* the model is idle (no method is running) and one more call may be made
Idle == pc = "idle" /\ calls < MaxCalls

Raised(op, args, err) ==
    /\ last' = Call(op, args, err, <<>>)
    /\ calls' = calls + 1
    /\ UNCHANGED <<pc, frame>>

Returned(op, args, ret) ==
    /\ last' = Call(op, args, "none", ret)
    /\ calls' = calls + 1
    /\ UNCHANGED <<pc, frame>>

(***************************************************************************)
(* KripkeModel.__init__                                                    *)
(***************************************************************************)
Init ==
    /\ W = {}
    /\ R = {}
    /\ V = EmptyDict
    /\ default_valuation = FALSE
    /\ last = Call("__init__", <<>>, "none", <<>>)
    /\ calls = 0
    /\ pc = "idle"
    /\ frame = <<>>

(***************************************************************************)
(* World management                                                        *)
(***************************************************************************)
\* add_world without the test `if world not in self.V`
add_world_resets(world) ==
    /\ Idle
    /\ IF ~isinstance_str(world)
       THEN /\ Raised("add_world", <<world>>, "TypeError")
            /\ UNCHANGED model_vars
       ELSE /\ W' = W \cup {world}
            /\ V' = DictSet(V, world, EmptyDict)
            /\ UNCHANGED <<R, default_valuation>>
            /\ Returned("add_world", <<world>>, <<>>)

add_world(world) ==
    /\ Idle
    /\ IF ~isinstance_str(world)
       THEN /\ Raised("add_world", <<world>>, "TypeError")
            /\ UNCHANGED model_vars
       ELSE /\ W' = W \cup {world}
            /\ V' = IF world \notin DOMAIN V THEN DictSet(V, world, EmptyDict) ELSE V
            /\ UNCHANGED <<R, default_valuation>>
            /\ Returned("add_world", <<world>>, <<>>)

\* remove_world without the line that filters self.R
remove_world_keeps_pairs(world) ==
    /\ Idle
    /\ IF world \notin W
       THEN /\ Raised("remove_world", <<world>>, "ValueError")
            /\ UNCHANGED model_vars
       ELSE /\ W' = W \ {world}
            /\ V' = DictDel(V, world)
            /\ UNCHANGED <<R, default_valuation>>
            /\ Returned("remove_world", <<world>>, <<>>)

\* remove_world with `or` for `and` in the filter of self.R
remove_world_filter_or(world) ==
    /\ Idle
    /\ IF world \notin W
       THEN /\ Raised("remove_world", <<world>>, "ValueError")
            /\ UNCHANGED model_vars
       ELSE /\ W' = W \ {world}
            /\ R' = {p \in R : p[1] # world \/ p[2] # world}
            /\ V' = DictDel(V, world)
            /\ UNCHANGED default_valuation
            /\ Returned("remove_world", <<world>>, <<>>)

remove_world(world) ==
    /\ Idle
    /\ IF world \notin W
       THEN /\ Raised("remove_world", <<world>>, "ValueError")
            /\ UNCHANGED model_vars
       ELSE /\ W' = W \ {world}
            /\ R' = {p \in R : p[1] # world /\ p[2] # world}
            /\ UNCHANGED default_valuation
            /\ IF world \in DOMAIN V
               THEN /\ V' = DictDel(V, world)
                    /\ Returned("remove_world", <<world>>, <<>>)
               ELSE \* del self.V[world] raises after W and R were assigned
                    /\ V' = V
                    /\ Raised("remove_world", <<world>>, "KeyError")

(***************************************************************************)
(* Relation management                                                     *)
(***************************************************************************)
\* add_relation that checks the source only
add_relation_source_only(source, target) ==
    /\ Idle
    /\ IF source \notin W
       THEN /\ Raised("add_relation", <<source, target>>, "ValueError")
            /\ UNCHANGED model_vars
       ELSE /\ R' = R \cup {<<source, target>>}
            /\ UNCHANGED <<W, V, default_valuation>>
            /\ Returned("add_relation", <<source, target>>, <<>>)

add_relation(source, target) ==
    /\ Idle
    /\ IF source \notin W \/ target \notin W
       THEN /\ Raised("add_relation", <<source, target>>, "ValueError")
            /\ UNCHANGED model_vars
       ELSE /\ R' = R \cup {<<source, target>>}
            /\ UNCHANGED <<W, V, default_valuation>>
            /\ Returned("add_relation", <<source, target>>, <<>>)

remove_relation(source, target) ==
    /\ Idle
    /\ IF <<source, target>> \notin R
       THEN /\ Raised("remove_relation", <<source, target>>, "ValueError")
            /\ UNCHANGED model_vars
       ELSE /\ R' = R \ {<<source, target>>}
            /\ UNCHANGED <<W, V, default_valuation>>
            /\ Returned("remove_relation", <<source, target>>, <<>>)

\* the loop that builds the identity pairs and assigns them to self.R
reflexive_loop_assigns(rel, todo) == {<<w, w>> : w \in todo}

RECURSIVE reflexive_loop(_, _)
\* for w in self.W: self.R.add((w, w))
reflexive_loop(rel, todo) ==
    IF todo = {} THEN rel
    ELSE LET w == CHOOSE x \in todo : TRUE
         IN  reflexive_loop(rel \cup {<<w, w>>}, todo \ {w})

\* make_relation_reflexive that loops over the worlds that have a pair
make_relation_reflexive_paired ==
    /\ Idle
    /\ R' = reflexive_loop(R, {w \in W : \E p \in R : p[1] = w \/ p[2] = w})
    /\ UNCHANGED <<W, V, default_valuation>>
    /\ Returned("make_relation_reflexive", <<>>, <<>>)

make_relation_reflexive ==
    /\ Idle
    /\ R' = reflexive_loop(R, W)
    /\ UNCHANGED <<W, V, default_valuation>>
    /\ Returned("make_relation_reflexive", <<>>, <<>>)

\* the loop with self.R.add((w1, w2)) for self.R.add((w2, w1))
symmetric_loop_same_pair(rel, todo) == rel \cup todo

RECURSIVE symmetric_loop(_, _)
\* for (w1, w2) in list(self.R): self.R.add((w2, w1))
\* todo is what remains of the copy list(self.R) made when the loop starts
symmetric_loop(rel, todo) ==
    IF todo = {} THEN rel
    ELSE LET p == CHOOSE x \in todo : TRUE
         IN  symmetric_loop(rel \cup {<<p[2], p[1]>>}, todo \ {p})

make_relation_symmetric ==
    /\ Idle
    /\ R' = symmetric_loop(R, R)
    /\ UNCHANGED <<W, V, default_valuation>>
    /\ Returned("make_relation_symmetric", <<>>, <<>>)

(***************************************************************************)
(* make_relation_transitive.  A loop state is [R, changed].  The inner     *)
(* loop runs over a copy of the relation made when it starts; the outer    *)
(* loop runs over a copy made when the pass starts.  The copies are lists  *)
(* of a set: their order is arbitrary, so what remains of a copy is kept   *)
(* as a set and the next element is any of its elements.  The operators    *)
(* below run the outer loop in every order and give the set of results;    *)
(* the specification SpecTrans does the same one iteration at a time.  The *)
(* order of the inner loop has no effect on what an iteration adds:        *)
(* for the outer pair (w1, w2), the iteration for (w2, w4) is the only one *)
(* that tests and adds (w1, w4).                                           *)
(***************************************************************************)
\* the body without changed = True
transitive_body_no_flag(st, p, q) ==
    IF p[2] = q[1] /\ <<p[1], q[2]>> \notin st.R
    THEN [R |-> st.R \cup {<<p[1], q[2]>>}, changed |-> st.changed]
    ELSE st

\* the body with changed = True outside the test for a missing pair
transitive_body_always_flag(st, p, q) ==
    IF p[2] = q[1]
    THEN [R |-> st.R \cup {<<p[1], q[2]>>}, changed |-> TRUE]
    ELSE st

\* if w2 == w3 and (w1, w4) not in self.R: self.R.add((w1, w4)); changed = True
transitive_body(st, p, q) ==
    IF p[2] = q[1] /\ <<p[1], q[2]>> \notin st.R
    THEN [R |-> st.R \cup {<<p[1], q[2]>>}, changed |-> TRUE]
    ELSE st

RECURSIVE transitive_inner(_, _, _)
\* for (w3, w4) in list(self.R): ..., for the pair p of the outer loop
transitive_inner(st, p, todo) ==
    IF todo = {} THEN st
    ELSE LET q == CHOOSE x \in todo : TRUE
         IN  transitive_inner(transitive_body(st, p, q), p, todo \ {q})

\* one iteration of the outer loop, for the pair p
transitive_outer_step(st, p) == transitive_inner(st, p, st.R)

RECURSIVE transitive_outer_from(_)
\* the outer loop from every element of front, a set of [st, todo] with todo
\* what is left of the list of the pass: the next pair is any pair of todo,
\* so the result is the set of the states the loop can end in
transitive_outer_from(front) ==
    IF \A f \in front : f.todo = {}
    THEN {f.st : f \in front}
    ELSE transitive_outer_from(
             UNION {{[st |-> transitive_outer_step(f.st, p), todo |-> f.todo \ {p}]
                        : p \in f.todo} : f \in front})

\* for (w1, w2) in list(self.R): ..., todo being the set the list is made
\* of.  What a pass adds depends on the order of the list, which is any
\* order: the result is the set of the states the pass can end in.
transitive_outer(st, todo) == transitive_outer_from({[st |-> st, todo |-> todo]})

RECURSIVE transitive_while(_)
\* while changed: changed = False; <one pass>.  The result is the set of the
\* relations the loop can end with, each pass taken in every order.
transitive_while(st) ==
    IF ~st.changed THEN {st.R}
    ELSE LET st0 == [R |-> st.R, changed |-> FALSE]
         IN  UNION {transitive_while(s) : s \in transitive_outer(st0, st0.R)}

\* the relations make_relation_transitive can end with on the relation rel
transitive_loop(rel) == transitive_while([R |-> rel, changed |-> TRUE])

make_relation_transitive ==
    /\ Idle
    /\ R' \in transitive_loop(R)
    /\ UNCHANGED <<W, V, default_valuation>>
    /\ Returned("make_relation_transitive", <<>>, <<>>)

(***************************************************************************)
(* Valuation management                                                    *)
(***************************************************************************)
\* set_valuation with self.V[world] = {prop: value}
set_valuation_fresh_map(world, prop, value) ==
    /\ Idle
    /\ UNCHANGED <<W, R, default_valuation>>
    /\ IF world \notin W
       THEN /\ Raised("set_valuation", <<world, prop, value>>, "ValueError")
            /\ V' = V
       ELSE IF ~isinstance_str(prop)
       THEN /\ Raised("set_valuation", <<world, prop, value>>, "TypeError")
            /\ V' = V
       ELSE /\ V' = DictSet(V, world, DictSet(EmptyDict, prop, value))
            /\ Returned("set_valuation", <<world, prop, value>>, <<>>)

set_valuation(world, prop, value) ==
    /\ Idle
    /\ UNCHANGED <<W, R, default_valuation>>
    /\ IF world \notin W
       THEN /\ Raised("set_valuation", <<world, prop, value>>, "ValueError")
            /\ V' = V
       ELSE IF ~isinstance_str(prop)
       THEN /\ Raised("set_valuation", <<world, prop, value>>, "TypeError")
            /\ V' = V
       ELSE IF world \notin DOMAIN V
       THEN \* self.V[world] raises
            /\ Raised("set_valuation", <<world, prop, value>>, "KeyError")
            /\ V' = V
       ELSE /\ V' = DictSet(V, world, DictSet(V[world], prop, value))
            /\ Returned("set_valuation", <<world, prop, value>>, <<>>)

\* get_valuation with the literal False for the model's default
get_valuation_false_default(m, world, prop) ==
    DictGet(DictGet(m.V, world, EmptyDict), prop, FALSE)

\* self.V.get(world, {}).get(prop, self._default_valuation)
get_valuation(m, world, prop) ==
    DictGet(DictGet(m.V, world, EmptyDict), prop, m.default_valuation)

call_get_valuation(world, prop) ==
    /\ Idle
    /\ UNCHANGED model_vars
    /\ Returned("get_valuation", <<world, prop>>, <<get_valuation(Self, world, prop)>>)

set_default_valuation(default) ==
    /\ Idle
    /\ default_valuation' = default
    /\ UNCHANGED <<W, R, V>>
    /\ Returned("set_default_valuation", <<default>>, <<>>)

(***************************************************************************)
(* Model queries                                                           *)
(***************************************************************************)
get_accessible_worlds(m, world) == {p[2] : p \in {q \in m.R : q[1] = world}}

validate_model_relations_only(m) ==
    IF \E p \in m.R : p[1] \notin m.W \/ p[2] \notin m.W THEN FALSE
    ELSE TRUE

validate_model(m) ==
    IF \E p \in m.R : p[1] \notin m.W \/ p[2] \notin m.W THEN FALSE
    ELSE IF \E world \in DOMAIN m.V : world \notin m.W THEN FALSE
    ELSE TRUE

call_validate_model ==
    /\ Idle
    /\ UNCHANGED model_vars
    /\ Returned("validate_model", <<>>, <<validate_model(Self)>>)

(***************************************************************************)
(* Serialization.  A snapshot is the dict to_dict returns and from_dict    *)
(* reads: W a list of worlds, R a list of two-element lists, V a dict,     *)
(* default_valuation a bool (a key from_dict does not require).            *)
(***************************************************************************)
\* list(pair), for a tuple pair
list_of_pair(pair) == <<pair[1], pair[2]>>

\* tuple(pair), for a list pair
tuple_of_list(l) == [i \in 1..Len(l) |-> l[i]]

\* to_dict, when list(self.W) is lw and the pairs of self.R are listed as lr
to_dict(m, lw, lr) ==
    [W |-> lw,
     R |-> [i \in 1..Len(lr) |-> list_of_pair(lr[i])],
     V |-> [w \in DOMAIN m.V |-> m.V[w]],
     default_valuation |-> m.default_valuation]

\* from_dict that makes the pair (target, source) of a list [source, target]
from_dict_swapped_pairs(data) ==
    [W |-> Range(data.W),
     R |-> {<<data.R[i][2], data.R[i][1]>> : i \in 1..Len(data.R)},
     V |-> data.V,
     default_valuation |-> DictGet(data, "default_valuation", FALSE)]

from_dict(data) ==
    [W |-> Range(data.W),
     R |-> {tuple_of_list(data.R[i]) : i \in 1..Len(data.R)},
     V |-> data.V,
     default_valuation |-> DictGet(data, "default_valuation", FALSE)]

Next ==
    \/ \E world \in WorldIds \cup {NotAString} : add_world(world)
    \/ \E world \in WorldIds : remove_world(world)
    \/ \E source \in WorldIds, target \in WorldIds : add_relation(source, target)
    \/ \E source \in WorldIds, target \in WorldIds : remove_relation(source, target)
    \/ make_relation_reflexive
    \/ make_relation_symmetric
    \/ make_relation_transitive
    \/ \E world \in WorldIds, prop \in Props \cup {NotAString}, value \in BOOLEAN :
          set_valuation(world, prop, value)
    \/ \E world \in WorldIds, prop \in Props : call_get_valuation(world, prop)
    \/ \E default \in BOOLEAN : set_default_valuation(default)
    \/ call_validate_model

Spec == Init /\ [][Next]_vars

(***************************************************************************)
(* The valuation of a model with two propositions (specification SpecVal): *)
(* worlds and pairs are added and removed, values are set and overwritten. *)
(***************************************************************************)
ValProps == {"p", "q"}

NextVal ==
    \/ \E world \in WorldIds : add_world(world)
    \/ \E world \in WorldIds : remove_world(world)
    \/ \E source \in WorldIds, target \in WorldIds : add_relation(source, target)
    \/ \E world \in WorldIds, prop \in ValProps \cup {NotAString}, value \in BOOLEAN :
          set_valuation(world, prop, value)

SpecVal == Init /\ [][NextVal]_vars

(***************************************************************************)
(* Two model objects (specification SpecAlias): m, built by the mutators,  *)
(* and m2 = KripkeModel.from_dict(m.to_dict()).  A dict of Python is an    *)
(* object: heap is the sequence of the inner dicts of values that were     *)
(* created, and the V of a model object holds, for each world, the address *)
(* (index in heap) of the dict of that world.  The variables W, R, V and    *)
(* default_valuation show m, with the addresses of V replaced by the dicts *)
(* they hold; frame holds the heap and the two objects.                    *)
(***************************************************************************)
AliasWorlds == {"w1", "w2"}

\* KripkeModel(): __init__
EmptyObject == [W |-> {}, R |-> {}, V |-> EmptyDict, default_valuation |-> FALSE]

\* the valuation of an object, each address replaced by the dict it holds
Deref(heap, obj) == [w \in DOMAIN obj.V |-> heap[obj.V[w]]]

\* the outcome of a method: the heap and the object after it, and its error
Outcome(heap, obj, err) == [heap |-> heap, obj |-> obj, err |-> err]

\* add_world: self.W.add(world); if world not in self.V: self.V[world] = {}
obj_add_world(heap, obj, world) ==
    IF world \in DOMAIN obj.V
    THEN Outcome(heap, [obj EXCEPT !.W = @ \cup {world}], "none")
    ELSE Outcome(Append(heap, EmptyDict),
                 [obj EXCEPT !.W = @ \cup {world},
                             !.V = DictSet(@, world, Len(heap) + 1)],
                 "none")

\* remove_world
obj_remove_world(heap, obj, world) ==
    IF world \notin obj.W THEN Outcome(heap, obj, "ValueError")
    ELSE LET o == [obj EXCEPT !.W = @ \ {world},
                              !.R = {p \in @ : p[1] # world /\ p[2] # world}]
         IN  IF world \in DOMAIN obj.V
             THEN Outcome(heap, [o EXCEPT !.V = DictDel(@, world)], "none")
             ELSE Outcome(heap, o, "KeyError")

\* add_relation
obj_add_relation(heap, obj, source, target) ==
    IF source \notin obj.W \/ target \notin obj.W THEN Outcome(heap, obj, "ValueError")
    ELSE Outcome(heap, [obj EXCEPT !.R = @ \cup {<<source, target>>}], "none")

\* set_valuation: self.V[world][prop] = value changes the dict self.V[world]
\* refers to, for every object that refers to it
obj_set_valuation(heap, obj, world, prop, value) ==
    IF world \notin obj.W THEN Outcome(heap, obj, "ValueError")
    ELSE IF ~isinstance_str(prop) THEN Outcome(heap, obj, "TypeError")
    ELSE IF world \notin DOMAIN obj.V THEN Outcome(heap, obj, "KeyError")
    ELSE Outcome([heap EXCEPT ![obj.V[world]] = DictSet(@, prop, value)], obj, "none")

InitAlias ==
    /\ W = {}
    /\ R = {}
    /\ V = EmptyDict
    /\ default_valuation = FALSE
    /\ last = Call("__init__", <<>>, "none", <<>>)
    /\ calls = 0
    /\ pc = "idle"
    /\ frame = [heap |-> <<>>, m |-> EmptyObject, m2 |-> EmptyObject, restored |-> FALSE]

\* the variables show the object m of the frame f
Shows(f) ==
    /\ W' = f.m.W
    /\ R' = f.m.R
    /\ V' = Deref(f.heap, f.m)
    /\ default_valuation' = f.m.default_valuation

\* the method op was called on the object named which, with outcome r
alias_call(which, op, args, r) ==
    /\ frame' = [frame EXCEPT !.heap = r.heap, ![which] = r.obj]
    /\ Shows(frame')
    /\ last' = Call(op, <<which>> \o args, r.err, <<>>)
    /\ calls' = calls + 1
    /\ UNCHANGED pc

alias_add_world(which, world) ==
    /\ Idle
    /\ which = "m2" => frame.restored
    /\ alias_call(which, "add_world", <<world>>,
                  obj_add_world(frame.heap, frame[which], world))

alias_remove_world(which, world) ==
    /\ Idle
    /\ which = "m2" => frame.restored
    /\ alias_call(which, "remove_world", <<world>>,
                  obj_remove_world(frame.heap, frame[which], world))

alias_add_relation(which, source, target) ==
    /\ Idle
    /\ which = "m2" => frame.restored
    /\ alias_call(which, "add_relation", <<source, target>>,
                  obj_add_relation(frame.heap, frame[which], source, target))

alias_set_valuation(which, world, prop, value) ==
    /\ Idle
    /\ which = "m2" => frame.restored
    /\ alias_call(which, "set_valuation", <<world, prop, value>>,
                  obj_set_valuation(frame.heap, frame[which], world, prop, value))

\* m2 = KripkeModel.from_dict(m.to_dict()): to_dict builds a new outer dict
\* of the same inner dicts, and from_dict keeps it
alias_restore ==
    /\ Idle
    /\ ~frame.restored
    /\ Cardinality(R) <= MaxList
    /\ \E lw \in ListsOf(frame.m.W), lr \in ListsOf(frame.m.R) :
          frame' = [frame EXCEPT !.m2 = from_dict(to_dict(frame.m, lw, lr)),
                                 !.restored = TRUE]
    /\ UNCHANGED <<model_vars, pc>>
    /\ last' = Call("from_dict(to_dict)", <<>>, "none", <<>>)
    /\ calls' = calls + 1

NextAlias ==
    \/ \E which \in {"m", "m2"}, world \in AliasWorlds : alias_add_world(which, world)
    \/ \E which \in {"m", "m2"}, world \in AliasWorlds : alias_remove_world(which, world)
    \/ \E which \in {"m", "m2"}, source \in AliasWorlds, target \in AliasWorlds :
          alias_add_relation(which, source, target)
    \/ \E which \in {"m", "m2"}, world \in AliasWorlds, prop \in Props, value \in BOOLEAN :
          alias_set_valuation(which, world, prop, value)
    \/ alias_restore

SpecAlias == InitAlias /\ [][NextAlias]_vars

(***************************************************************************)
(* Formulas: the classes Prop, Not, And, Or, Implies, Box and Diamond.  An *)
(* object is a record whose field type is the name of its class.           *)
(***************************************************************************)
Prop(name) == [type |-> "Prop", name |-> name]

Not(operand) == [type |-> "Not", operand |-> operand]

And(left, right) == [type |-> "And", left |-> left, right |-> right]

Or(left, right) == [type |-> "Or", left |-> left, right |-> right]

Implies(left, right) == [type |-> "Implies", left |-> left, right |-> right]

Box(operand) == [type |-> "Box", operand |-> operand]

Diamond(operand) == [type |-> "Diamond", operand |-> operand]

\* the proposition names of the formulas
FormulaProps == {"p", "q"}

RECURSIVE FormulasOfSize(_)
\* the formulas with exactly n connectives
FormulasOfSize(n) ==
    IF n = 0 THEN {Prop(name) : name \in FormulaProps}
    ELSE LET sub   == FormulasOfSize(n - 1)
             pairs == UNION {FormulasOfSize(i) \X FormulasOfSize(n - 1 - i) :
                               i \in 0..(n - 1)}
         IN  {Not(f) : f \in sub} \cup {Box(f) : f \in sub}
             \cup {Diamond(f) : f \in sub}
             \cup {And(x[1], x[2]) : x \in pairs}
             \cup {Or(x[1], x[2]) : x \in pairs}
             \cup {Implies(x[1], x[2]) : x \in pairs}

\* the formulas the evaluator is called on
Formulas == UNION {FormulasOfSize(n) : n \in 0..MaxConn}

\* the formulas with fewer than MaxConn connectives
ShallowFormulas == UNION {FormulasOfSize(n) : n \in 0..(MaxConn - 1)}

(***************************************************************************)
(* evaluate_formula.  A result is [err, ret]: ret = <<b>> when the call    *)
(* returned the truth value b, err names the exception when it raised.     *)
(* all() and any() iterate the set of accessible worlds in the order the   *)
(* set happens to have and stop at the first world that decides, so a call *)
(* has a set of possible results, one for each order: evaluate_formula is  *)
(* that set.                                                               *)
(***************************************************************************)
Return(b) == [err |-> "none", ret |-> <<b>>]

Raise(e) == [err |-> e, ret |-> <<>>]

InvalidModel == "ValueError: Invalid Kripke model"

UnknownWorld == "ValueError: World does not exist in the model"

RECURSIVE evaluate_formula(_, _, _)
RECURSIVE all_accessible(_, _, _)
RECURSIVE any_accessible(_, _, _)

\* the test of the world argument left out
world_exists_unchecked(m, world) == TRUE

\* if world not in model.W
world_exists(m, world) == world \in m.W

\* all(evaluate_formula(model, operand, w) for w in accessible_worlds):
\* whichever world the iteration meets first with a result that is not True
\* ends it, with False or with the exception; all() is True when the
\* iteration comes to its end
all_accessible(m, operand, accessible_worlds) ==
    LET results == [w \in accessible_worlds |-> evaluate_formula(m, operand, w)]
        ending  == UNION {{r \in results[w] : r # Return(TRUE)} : w \in accessible_worlds}
    IN  ending \cup (IF \A w \in accessible_worlds : Return(TRUE) \in results[w]
                     THEN {Return(TRUE)} ELSE {})

\* Diamond evaluated with all() for any()
any_accessible_as_all(m, operand, accessible_worlds) ==
    all_accessible(m, operand, accessible_worlds)

\* any(evaluate_formula(model, operand, w) for w in accessible_worlds):
\* whichever world the iteration meets first with a result that is not False
\* ends it, with True or with the exception; any() is False when the
\* iteration comes to its end
any_accessible(m, operand, accessible_worlds) ==
    LET results == [w \in accessible_worlds |-> evaluate_formula(m, operand, w)]
        ending  == UNION {{r \in results[w] : r # Return(FALSE)} : w \in accessible_worlds}
    IN  ending \cup (IF \A w \in accessible_worlds : Return(FALSE) \in results[w]
                     THEN {Return(FALSE)} ELSE {})

evaluate_formula(m, formula, world) ==
    IF ~validate_model(m) THEN {Raise(InvalidModel)}
    ELSE IF ~world_exists(m, world) THEN {Raise(UnknownWorld)}
    ELSE IF formula.type = "Prop"
    THEN {Return(get_valuation(m, world, formula.name))}
    ELSE IF formula.type = "Not"
    THEN {IF r.err # "none" THEN r ELSE Return(~r.ret[1]) :
            r \in evaluate_formula(m, formula.operand, world)}
    ELSE IF formula.type = "And"
    THEN UNION {IF l.err # "none" \/ ~l.ret[1] THEN {l}
                ELSE evaluate_formula(m, formula.right, world) :
                  l \in evaluate_formula(m, formula.left, world)}
    ELSE IF formula.type = "Or"
    THEN UNION {IF l.err # "none" \/ l.ret[1] THEN {l}
                ELSE evaluate_formula(m, formula.right, world) :
                  l \in evaluate_formula(m, formula.left, world)}
    ELSE IF formula.type = "Implies"
    THEN UNION {IF l.err # "none" THEN {l}
                ELSE IF ~l.ret[1] THEN {Return(TRUE)}
                ELSE evaluate_formula(m, formula.right, world) :
                  l \in evaluate_formula(m, formula.left, world)}
    ELSE IF formula.type = "Box"
    THEN all_accessible(m, formula.operand, get_accessible_worlds(m, world))
    ELSE IF formula.type = "Diamond"
    THEN any_accessible(m, formula.operand, get_accessible_worlds(m, world))
    ELSE {Raise("TypeError")}

call_evaluate_formula(formula, world) ==
    /\ Idle
    /\ UNCHANGED model_vars
    /\ \E r \in evaluate_formula(Self, formula, world) :
          last' = Call("evaluate_formula", <<formula, world>>, r.err, r.ret)
    /\ calls' = calls + 1
    /\ UNCHANGED <<pc, frame>>

(***************************************************************************)
(* evaluate_formula_in_all_worlds: the dict comprehension over model.W,    *)
(* which meets the worlds in the order todo and stops at the first         *)
(* evaluation that raises.  It is the set of the possible results.         *)
(***************************************************************************)
RECURSIVE all_worlds_loop_one_world(_, _, _, _)
\* the comprehension with every value computed at the first world met
all_worlds_loop_one_world(m, formula, todo, result) ==
    IF todo = <<>> THEN {[err |-> "none", ret |-> <<result>>]}
    ELSE {IF r.err # "none" THEN r
          ELSE [err |-> "none",
                ret |-> <<[w \in DOMAIN result \cup Range(todo) |-> r.ret[1]]>>] :
            r \in evaluate_formula(m, formula, Head(todo))}

RECURSIVE all_worlds_loop(_, _, _, _)
all_worlds_loop(m, formula, todo, result) ==
    IF todo = <<>> THEN {[err |-> "none", ret |-> <<result>>]}
    ELSE UNION {IF r.err # "none" THEN {r}
                ELSE all_worlds_loop(m, formula, Tail(todo),
                                     DictSet(result, Head(todo), r.ret[1])) :
                  r \in evaluate_formula(m, formula, Head(todo))}

evaluate_formula_in_all_worlds(m, formula, order) ==
    all_worlds_loop(m, formula, order, EmptyDict)

call_evaluate_formula_in_all_worlds(formula) ==
    /\ Idle
    /\ UNCHANGED model_vars
    /\ \E order \in ListsOf(W) :
          \E r \in evaluate_formula_in_all_worlds(Self, formula, order) :
             last' = Call("evaluate_formula_in_all_worlds", <<formula>>, r.err, r.ret)
    /\ calls' = calls + 1
    /\ UNCHANGED <<pc, frame>>

(***************************************************************************)
(* A model restored by from_dict from an arbitrary snapshot (specification *)
(* SpecLoad).  from_dict checks nothing: the pairs of R and the keys of V  *)
(* need not be worlds of W, and a world of W need not be a key of V.       *)
(***************************************************************************)
\* the worlds the snapshots mention
LoadWorlds == {"w1", "w2"}

\* the dicts with keys among keys and values among vals
Dicts(keys, vals) == UNION {[K -> vals] : K \in SUBSET keys}

\* the snapshots from_dict is called on
Snapshots ==
    LET Ws  == UNION {ListsOf(S) : S \in SUBSET LoadWorlds}
        Rs  == UNION {ListsOf(S) :
                        S \in {T \in SUBSET (LoadWorlds \X LoadWorlds) :
                                 Cardinality(T) <= MaxSnapPairs}}
        Vs  == Dicts(LoadWorlds, Dicts(Props, BOOLEAN))
        req == {[W |-> lw, R |-> [i \in 1..Len(lr) |-> list_of_pair(lr[i])], V |-> v] :
                  lw \in Ws, lr \in Rs, v \in Vs}
    IN  req \cup {[W |-> d.W, R |-> d.R, V |-> d.V, default_valuation |-> b] :
                    d \in req, b \in BOOLEAN}

\* model = KripkeModel.from_dict(data)
InitLoad ==
    \E data \in Snapshots :
        LET m == from_dict(data)
        IN  /\ W = m.W
            /\ R = m.R
            /\ V = m.V
            /\ default_valuation = m.default_valuation
            /\ last = Call("from_dict", <<>>, "none", <<>>)
            /\ calls = 0
            /\ pc = "idle"
            /\ frame = <<>>

NextLoad ==
    \/ \E world \in WorldIds : remove_world(world)
    \/ call_validate_model

SpecLoad == InitLoad /\ [][NextLoad]_vars

(***************************************************************************)
(* The model of a session of main.py (specification SpecSession).  Between *)
(* the calls of the editor the sidebar can replace the model by a new one, *)
(* save it (the file holds json.dumps(to_dict())) and load a file, the one *)
(* saved before or any other (the model becomes from_dict(json.load(f))).  *)
(* The text json.dumps writes for lists, strings and booleans is loaded    *)
(* back as the same lists, strings and booleans, so the file is kept as    *)
(* the dictionary.  frame holds the file saved last and, for the claims,   *)
(* the model it was saved from.                                            *)
(***************************************************************************)
\* the number of calls of a session
MaxSession == 5

\* the files a session uploads that it did not save: one or two worlds, no
\* pair or the pair (w1, w2) (dangling when w2 is not a world), no values,
\* values for w2 only (orphaned when w2 is not a world) or for both worlds,
\* and no default or the default True
UploadedFiles ==
    {d \in Snapshots :
        /\ d.W \in {<<"w1">>, <<"w1", "w2">>}
        /\ d.R \in {<<>>, <<list_of_pair(<<"w1", "w2">>)>>}
        /\ d.V \in {EmptyDict,
                    [w \in {"w2"} |-> [p \in Props |-> TRUE]],
                    [w \in {"w1", "w2"} |-> IF w = "w2" THEN [p \in Props |-> TRUE]
                                                        ELSE EmptyDict]}
        /\ "default_valuation" \in DOMAIN d => d.default_valuation}

InitSession ==
    /\ W = {}
    /\ R = {}
    /\ V = EmptyDict
    /\ default_valuation = FALSE
    /\ last = Call("__init__", <<>>, "none", <<>>)
    /\ calls = 0
    /\ pc = "idle"
    /\ frame = [saved |-> FALSE, data |-> <<>>, source |-> <<>>]

\* Initialize New Model: st.session_state.kripke_model = KripkeModel()
new_model ==
    /\ Idle
    /\ W' = {}
    /\ R' = {}
    /\ V' = EmptyDict
    /\ default_valuation' = FALSE
    /\ Returned("__init__", <<>>, <<>>)

\* Download Current Model: model_json = json.dumps(model.to_dict())
save_model ==
    /\ Idle
    /\ \E lw \in ListsOf(W), lr \in ListsOf(R) :
          frame' = [saved |-> TRUE, data |-> to_dict(Self, lw, lr), source |-> Self]
    /\ last' = Call("to_dict", <<>>, "none", <<>>)
    /\ calls' = calls + 1
    /\ UNCHANGED <<model_vars, pc>>

\* Load Model: st.session_state.kripke_model = KripkeModel.from_dict(data),
\* file telling whether data is the file saved last or another file
load_model(data, file) ==
    /\ Idle
    /\ LET m == from_dict(data)
       IN  /\ W' = m.W
           /\ R' = m.R
           /\ V' = m.V
           /\ default_valuation' = m.default_valuation
    /\ Returned("from_dict", <<file>>, <<>>)

\* the editor shows the relation buttons when the model has two worlds or more
relation_buttons == Cardinality(W) >= 2

\* the steps of the page: the sidebar, then the editor, whose selectboxes
\* offer the worlds of W and whose text input takes any name
NextSession ==
    /\ calls < MaxSession
    /\ \/ new_model
       \/ save_model
       \/ frame.saved /\ load_model(frame.data, "saved")
       \/ \E data \in UploadedFiles : load_model(data, "uploaded")
       \/ \E world \in LoadWorlds : add_world(world)
       \/ \E world \in W : remove_world(world)
       \/ relation_buttons /\ \E source \in W, target \in W : add_relation(source, target)
       \/ relation_buttons /\ \E source \in W, target \in W : remove_relation(source, target)
       \/ relation_buttons /\ make_relation_reflexive
       \/ relation_buttons /\ make_relation_symmetric
       \/ relation_buttons /\ make_relation_transitive
       \/ \E world \in W, prop \in Props, value \in BOOLEAN :
             set_valuation(world, prop, value)

SpecSession == InitSession /\ [][NextSession]_vars

(***************************************************************************)
(* The evaluator called on a valid model (specification SpecEval).  The    *)
(* model is any valid model over two worlds, or the model of the demo of   *)
(* the module; one formula is evaluated at one world of WorldIds.          *)
(***************************************************************************)
\* the worlds of the models the evaluator is given
EvalWorlds == {"w1", "w2"}

\* the model the demo builds: w1 -> w2 -> w3 made reflexive, p and q set
DemoModel ==
    [W |-> {"w1", "w2", "w3"},
     R |-> {<<"w1", "w2">>, <<"w2", "w3">>,
            <<"w1", "w1">>, <<"w2", "w2">>, <<"w3", "w3">>},
     V |-> [w \in {"w1", "w2", "w3"} |->
              [name \in {"p", "q"} |->
                 IF name = "p" THEN w # "w2" ELSE w # "w1"]],
     default_valuation |-> FALSE]

\* the valid models over the worlds of EvalWorlds, and the demo's model: V
\* has a dict for every world (a model built by the mutators) or for none
\* (a model from_dict restored from a snapshot whose V is empty)
EvalModels ==
    {DemoModel} \cup
    UNION {{[W |-> ws, R |-> r, V |-> v, default_valuation |-> b] :
              r \in SUBSET (ws \X ws),
              v \in [ws -> Dicts(Props, BOOLEAN)] \cup {EmptyDict},
              b \in BOOLEAN} : ws \in SUBSET EvalWorlds}

InitEval ==
    \E m \in EvalModels :
        /\ W = m.W
        /\ R = m.R
        /\ V = m.V
        /\ default_valuation = m.default_valuation
        /\ last = Call("__init__", <<>>, "none", <<>>)
        /\ calls = 0
        /\ pc = "idle"
        /\ frame = <<>>

\* one call of the evaluator on each model
NextEval ==
    /\ calls = 0
    /\ \E formula \in Formulas, world \in WorldIds :
          call_evaluate_formula(formula, world)

SpecEval == InitEval /\ [][NextEval]_vars

\* the same models, the formula evaluated in all worlds (SpecEvalAll)
NextEvalAll ==
    /\ calls = 0
    /\ \E formula \in ShallowFormulas :
          call_evaluate_formula_in_all_worlds(formula)

SpecEvalAll == InitEval /\ [][NextEvalAll]_vars

(***************************************************************************)
(* The evaluator called on a restored model (specification SpecLoadEval).  *)
(* The model is what from_dict makes of any snapshot, valid or not; the    *)
(* formula has each of the seven variants at its root.                     *)
(***************************************************************************)
NextLoadEval ==
    /\ calls = 0
    /\ \E formula \in ShallowFormulas, world \in WorldIds :
          call_evaluate_formula(formula, world)

SpecLoadEval == InitLoad /\ [][NextLoadEval]_vars

(***************************************************************************)
(* make_relation_transitive run step by step (specification SpecTrans), on *)
(* any model over the worlds of WorldIds.  One step is one iteration of    *)
(* the outer loop, for any pair that remains of the copy of the relation   *)
(* made when the pass started.  frame holds the locals changed and todo    *)
(* (what remains of that copy) and entry, the model when the call started. *)
(***************************************************************************)
InitTrans ==
    \E ws \in SUBSET WorldIds : \E r \in SUBSET (ws \X ws) :
        /\ W = ws
        /\ R = r
        /\ V = [w \in ws |-> EmptyDict]
        /\ default_valuation = FALSE
        /\ last = Call("__init__", <<>>, "none", <<>>)
        /\ calls = 0
        /\ pc = "idle"
        /\ frame = <<>>

\* the call: changed = True
transitive_call ==
    /\ Idle
    /\ pc' = "while"
    /\ frame' = [changed |-> TRUE, todo |-> {}, entry |-> Self,
                 before |-> R, passes |-> 0, adding |-> 0]
    /\ UNCHANGED <<model_vars, last, calls>>

\* while changed: changed = False, and the outer loop copies the relation
transitive_pass ==
    /\ pc = "while"
    /\ frame.changed
    /\ pc' = "for"
    /\ frame' = [frame EXCEPT !.changed = FALSE, !.todo = R, !.before = R]
    /\ UNCHANGED <<model_vars, last, calls>>

\* one iteration of the outer loop
transitive_step(p) ==
    /\ pc = "for"
    /\ p \in frame.todo
    /\ LET st == transitive_outer_step([R |-> R, changed |-> frame.changed], p)
       IN  /\ R' = st.R
           /\ frame' = [frame EXCEPT !.changed = st.changed, !.todo = @ \ {p}]
    /\ UNCHANGED <<W, V, default_valuation, last, calls, pc>>

\* the outer loop ends
transitive_pass_end ==
    /\ pc = "for"
    /\ frame.todo = {}
    /\ pc' = "while"
    /\ frame' = [frame EXCEPT !.passes = @ + 1,
                              !.adding = IF R # frame.before THEN @ + 1 ELSE @]
    /\ UNCHANGED <<model_vars, last, calls>>

\* the while loop ends and the method returns
transitive_return ==
    /\ pc = "while"
    /\ ~frame.changed
    /\ pc' = "idle"
    /\ last' = Call("make_relation_transitive", <<>>, "none", <<>>)
    /\ calls' = calls + 1
    /\ UNCHANGED <<model_vars, frame>>

NextTrans ==
    \/ transitive_call
    \/ transitive_pass
    \/ \E p \in WorldIds \X WorldIds : transitive_step(p)
    \/ transitive_pass_end
    \/ transitive_return

SpecTrans == InitTrans /\ [][NextTrans]_vars

(***************************************************************************)
(* The three closures in the order of the buttons of main.py               *)
(* (specification SpecS5): on any model of InitTrans either                *)
(* make_relation_transitive is called at once, or make_relation_reflexive, *)
(* make_relation_symmetric and make_relation_transitive are called one     *)
(* after the other.                                                        *)
(***************************************************************************)
NextS5 ==
    \/ calls = 0 /\ make_relation_reflexive
    \/ last.op = "make_relation_reflexive" /\ make_relation_symmetric
    \/ (calls = 0 \/ last.op = "make_relation_symmetric") /\ make_relation_transitive

SpecS5 == InitTrans /\ [][NextS5]_vars

(***************************************************************************)
(* is_world_reachable run step by step (specification SpecReach).  One     *)
(* step is one iteration of the while loop.  The for loop iterates the set *)
(* self.R in an arbitrary order: the successors of the current world that  *)
(* are not visited yet are pushed in any order.  frame holds the arguments *)
(* and the locals visited and stack.                                       *)
(***************************************************************************)
\* the worlds of the models is_world_reachable is called on
ReachWorlds == {"w1", "w2", "w3", "w4", "w5", "w6"}

\* the pairs of those models: two routes from w1 to w5, of three pairs and
\* of two, the pair from w5 on to w6, a pair from w1 to w6, two pairs back to
\* w1 (cycles) and a self-pair
ReachEdges ==
    {<<"w1", "w2">>, <<"w2", "w3">>, <<"w3", "w5">>,
     <<"w1", "w4">>, <<"w4", "w5">>,
     <<"w5", "w6">>, <<"w1", "w6">>,
     <<"w6", "w1">>, <<"w5", "w1">>, <<"w3", "w3">>}

\* the worlds the search starts from
ReachStarts == {"w1", "w5"}

InitReach ==
    \E r \in SUBSET ReachEdges :
        /\ W = ReachWorlds
        /\ R = r
        /\ V = [w \in ReachWorlds |-> EmptyDict]
        /\ default_valuation = FALSE
        /\ last = Call("__init__", <<>>, "none", <<>>)
        /\ calls = 0
        /\ pc = "idle"
        /\ frame = <<>>

\* the call: visited = set(); stack = [(start, 0)]
reachable_call(start, target, max_steps) ==
    /\ Idle
    /\ pc' = "reach"
    /\ frame' = [start |-> start, target |-> target, max_steps |-> max_steps,
                 visited |-> {}, stack |-> <<<<start, 0>>>>]
    /\ UNCHANGED <<model_vars, last, calls>>

\* the method returns b
reachable_return(b) ==
    /\ pc' = "idle"
    /\ last' = Call("is_world_reachable",
                    <<frame.start, frame.target, frame.max_steps>>, "none", <<b>>)
    /\ calls' = calls + 1
    /\ UNCHANGED model_vars

\* one iteration of `while stack` without the test `w2 not in visited`
reachable_step_revisits ==
    /\ pc = "reach"
    /\ frame.stack # <<>>
    /\ LET n       == Len(frame.stack)
           current == frame.stack[n][1]
           steps   == frame.stack[n][2]
           popped  == SubSeq(frame.stack, 1, n - 1)
           fresh   == {p[2] : p \in {q \in R : q[1] = current}}
       IN  IF current = frame.target
           THEN /\ reachable_return(TRUE)
                /\ frame' = [frame EXCEPT !.stack = popped]
           ELSE IF steps >= frame.max_steps
           THEN /\ frame' = [frame EXCEPT !.stack = popped]
                /\ UNCHANGED <<model_vars, last, calls, pc>>
           ELSE /\ \E l \in ListsOf(fresh) :
                      frame' = [frame EXCEPT
                                  !.visited = @ \cup fresh,
                                  !.stack = popped \o [i \in 1..Len(l) |-> <<l[i], steps + 1>>]]
                /\ UNCHANGED <<model_vars, last, calls, pc>>

\* one iteration of `while stack` with `steps > max_steps` as the cut
reachable_step_late_cut ==
    /\ pc = "reach"
    /\ frame.stack # <<>>
    /\ LET n       == Len(frame.stack)
           current == frame.stack[n][1]
           steps   == frame.stack[n][2]
           popped  == SubSeq(frame.stack, 1, n - 1)
           fresh   == {p[2] : p \in {q \in R : q[1] = current /\ q[2] \notin frame.visited}}
       IN  IF current = frame.target
           THEN /\ reachable_return(TRUE)
                /\ frame' = [frame EXCEPT !.stack = popped]
           ELSE IF steps > frame.max_steps
           THEN /\ frame' = [frame EXCEPT !.stack = popped]
                /\ UNCHANGED <<model_vars, last, calls, pc>>
           ELSE /\ \E l \in ListsOf(fresh) :
                      frame' = [frame EXCEPT
                                  !.visited = @ \cup fresh,
                                  !.stack = popped \o [i \in 1..Len(l) |-> <<l[i], steps + 1>>]]
                /\ UNCHANGED <<model_vars, last, calls, pc>>

\* one iteration of `while stack`
reachable_step ==
    /\ pc = "reach"
    /\ frame.stack # <<>>
    /\ LET n       == Len(frame.stack)
           current == frame.stack[n][1]
           steps   == frame.stack[n][2]
           popped  == SubSeq(frame.stack, 1, n - 1)
           fresh   == {p[2] : p \in {q \in R : q[1] = current /\ q[2] \notin frame.visited}}
       IN  IF current = frame.target
           THEN /\ reachable_return(TRUE)
                /\ frame' = [frame EXCEPT !.stack = popped]
           ELSE IF steps >= frame.max_steps
           THEN /\ frame' = [frame EXCEPT !.stack = popped]
                /\ UNCHANGED <<model_vars, last, calls, pc>>
           ELSE /\ \E l \in ListsOf(fresh) :
                      frame' = [frame EXCEPT
                                  !.visited = @ \cup fresh,
                                  !.stack = popped \o [i \in 1..Len(l) |-> <<l[i], steps + 1>>]]
                /\ UNCHANGED <<model_vars, last, calls, pc>>

\* the stack is empty: return False
reachable_fail ==
    /\ pc = "reach"
    /\ frame.stack = <<>>
    /\ reachable_return(FALSE)
    /\ UNCHANGED frame

\* one call of is_world_reachable on each model
NextReach ==
    \/ /\ calls = 0
       /\ \E start \in ReachStarts, target \in ReachWorlds,
             max_steps \in 0..MaxSteps \cup {DefaultMaxSteps} :
             reachable_call(start, target, max_steps)
    \/ reachable_step
    \/ reachable_fail

SpecReach == InitReach /\ [][NextReach]_vars

(***************************************************************************)
(* Properties of the model built by the mutators (specification Spec).     *)
(***************************************************************************)
\* a step of the specification that is the call op, made with the model in
\* the unprimed state and leaving it in the primed state
IsCall(op) == calls' = calls + 1 /\ last'.op = op

\* C2: in every state reachable from the empty model by the mutators (failed
\* calls included) every pair of R has both endpoints in W and every key of
\* V is in W, so validate_model() returns True, also right after a
\* successful remove_world.
C2_NoDanglingReference ==
    /\ \A p \in R : p[1] \in W /\ p[2] \in W
    /\ DOMAIN V \subseteq W
    /\ validate_model(Self) = TRUE

\* a world was removed from a model that keeps worlds, pairs and valuations
C2_Witness ==
    /\ last.op = "remove_world" /\ last.err = "none"
    /\ W # {} /\ R # {}
    /\ \E w \in DOMAIN V : V[w] # EmptyDict
    /\ validate_model(Self)

\* C6: from_dict(m.to_dict()) has the W, R, V and default valuation of m,
\* whatever the order in which to_dict lists the worlds and the pairs.
C6_RoundTrip ==
    [][(IsCall("from_dict") /\ last'.args = <<"saved">>) =>
          /\ W' = frame.source.W
          /\ R' = frame.source.R
          /\ V' = frame.source.V
          /\ default_valuation' = frame.source.default_valuation]_vars

\* a model with two worlds, a pair, a valuation and the default set to True
\* was saved, lost a world, and came back from the file as it was saved
C6_Witness ==
    /\ last.op = "from_dict" /\ last.args = <<"saved">>
    /\ Cardinality(W) >= 2 /\ R # {}
    /\ \E w \in DOMAIN V : V[w] # EmptyDict
    /\ default_valuation = TRUE
    /\ Self = frame.source

\* C7: remove_world(w) with w in W removes w from W, exactly the pairs of R
\* with source or target w and exactly the V entry of w, and leaves every
\* other world, pair, valuation map and the default valuation as they were;
\* with w not in W it raises the not-found error (and changes nothing).
C7_RemoveWorldEffect ==
    [][IsCall("remove_world") =>
          LET w == last'.args[1]
          IN  IF w \in W
              THEN /\ last'.err = "none"
                   /\ w \notin W'
                   /\ \A x \in WorldIds \ {w} : x \in W' <=> x \in W
                   /\ \A a \in WorldIds, b \in WorldIds :
                         <<a, b>> \in R' <=> (<<a, b>> \in R /\ a # w /\ b # w)
                   /\ w \notin DOMAIN V'
                   /\ \A x \in WorldIds \ {w} :
                         /\ x \in DOMAIN V' <=> x \in DOMAIN V
                         /\ x \in DOMAIN V => V'[x] = V[x]
                   /\ default_valuation' = default_valuation
              ELSE /\ last'.err = "ValueError"
                   /\ UNCHANGED model_vars]_vars

\* a world was removed and another world, with a pair and a valuation, stays
C7_Witness ==
    /\ last.op = "remove_world" /\ last.err = "none"
    /\ last.args[1] \notin W
    /\ \E p \in R : p[1] # p[2]
    /\ \E w \in DOMAIN V : V[w] # EmptyDict

\* C8: after make_relation_symmetric() the relation is exactly the union of
\* the relation at the start of the call and its inverse; W and V are
\* unchanged.
C8_SymmetricClosure ==
    [][IsCall("make_relation_symmetric") =>
          /\ \A a \in WorldIds, b \in WorldIds :
                <<a, b>> \in R' <=> (<<a, b>> \in R \/ <<b, a>> \in R)
          /\ R' \subseteq WorldIds \X WorldIds
          /\ W' = W
          /\ V' = V]_vars

\* make_relation_symmetric returned on a relation with a pair between two
\* different worlds
C8_Witness ==
    /\ last.op = "make_relation_symmetric"
    /\ \E p \in R : p[1] # p[2]
    /\ Cardinality(R) >= 3

\* C9: make_relation_reflexive() sets R to R with the pair (w, w) of every
\* world w of W added, removes no pair, leaves W and V unchanged, and a
\* second call right after it leaves R unchanged.
C9_ReflexiveClosure ==
    [][IsCall("make_relation_reflexive") =>
          /\ R \subseteq R'
          /\ \A w \in W : <<w, w>> \in R'
          /\ \A p \in R' \ R : p[1] = p[2] /\ p[1] \in W
          /\ W' = W
          /\ V' = V
          /\ reflexive_loop(R', W') = R'
          /\ (last.op = "make_relation_reflexive" => R' = R)]_vars

\* make_relation_reflexive returned on a model with two worlds and a pair
\* between different worlds
C9_Witness ==
    /\ last.op = "make_relation_reflexive"
    /\ Cardinality(W) >= 2
    /\ \E p \in R : p[1] # p[2]
    /\ \A w \in W : <<w, w>> \in R

(***************************************************************************)
(* Properties of a model restored by from_dict (specification SpecLoad).   *)
(***************************************************************************)
\* C5: a remove_world(w) call that raises an error leaves W, R, V and the
\* default valuation exactly as they were before the call, in every model
\* state, those restored by from_dict from an arbitrary snapshot included.
C5_RemoveWorldAllOrNothing ==
    [][(IsCall("remove_world") /\ last'.err # "none") => UNCHANGED model_vars]_vars

(***************************************************************************)
(* Properties of the evaluator (specification SpecEval).                   *)
(***************************************************************************)
RECURSIVE Sat(_, _, _)
\* the Kripke satisfaction relation: formula f holds at world w of model m
Sat(m, w, f) ==
    CASE f.type = "Prop"    -> get_valuation(m, w, f.name)
      [] f.type = "Not"     -> ~Sat(m, w, f.operand)
      [] f.type = "And"     -> Sat(m, w, f.left) /\ Sat(m, w, f.right)
      [] f.type = "Or"      -> Sat(m, w, f.left) \/ Sat(m, w, f.right)
      [] f.type = "Implies" -> Sat(m, w, f.left) => Sat(m, w, f.right)
      [] f.type = "Box"     ->
            \A v \in m.W : <<w, v>> \in m.R => Sat(m, v, f.operand)
      [] f.type = "Diamond" ->
            \E v \in m.W : <<w, v>> \in m.R /\ Sat(m, v, f.operand)

\* C1: on a valid model, evaluate_formula(model, formula, w) for a world w of
\* W returns the truth value the Kripke satisfaction relation gives formula
\* at w on the model's W, R, V and default valuation: Box is true when w has
\* no successor, Diamond false.
C1_KripkeSatisfaction ==
    (last.op = "evaluate_formula" /\ validate_model(Self) /\ last.args[2] \in W)
        => /\ last.err = "none"
           /\ last.ret = <<Sat(Self, last.args[2], last.args[1])>>

\* the demo's model: Box(p) evaluated at w1 is False, as w1 -> w2 and p is
\* False at w2
C1_Witness ==
    /\ last.op = "evaluate_formula"
    /\ Self = DemoModel
    /\ last.args = <<Box(Prop("p")), "w1">>
    /\ last.ret = <<FALSE>>

\* C10: on a valid model, evaluate_formula called with a world that is not
\* in W raises the unknown-world error and returns no truth value, whatever
\* the variant of the formula.
C10_UnknownWorld ==
    (last.op = "evaluate_formula" /\ validate_model(Self) /\ last.args[2] \notin W)
        => /\ last.err = UnknownWorld
           /\ last.ret = <<>>

\* a Diamond formula was evaluated at a world that is not in a model which
\* has worlds and pairs
C10_Witness ==
    /\ last.op = "evaluate_formula"
    /\ last.args[1].type = "Diamond"
    /\ last.args[2] \notin W
    /\ W # {} /\ R # {}
    /\ last.err = UnknownWorld

(***************************************************************************)
(* Properties of make_relation_transitive (specification SpecTrans).       *)
(***************************************************************************)
\* the relation rel is closed under composition
IsTransitive(rel) ==
    \A p \in rel, q \in rel : p[2] = q[1] => <<p[1], q[2]>> \in rel

\* C3: after make_relation_transitive() R is the transitive closure of the
\* relation the call started with: it contains that relation, it is closed
\* under composition and every transitive relation that contains the input
\* contains it; the result is that of every order of scanning the pairs (it
\* is the only relation the loop run whole can end with), and W and V are
\* unchanged.
C3_TransitiveClosure ==
    (pc = "idle" /\ last.op = "make_relation_transitive")
        => /\ frame.entry.R \subseteq R
           /\ IsTransitive(R)
           /\ \A T \in SUBSET (WorldIds \X WorldIds) :
                 (frame.entry.R \subseteq T /\ IsTransitive(T)) => R \subseteq T
           /\ transitive_loop(frame.entry.R) = {R}
           /\ W = frame.entry.W
           /\ V = frame.entry.V

\* the call returned on a model with three worlds after adding pairs that
\* include a pair (w, w)
C3_Witness ==
    /\ pc = "idle" /\ last.op = "make_relation_transitive"
    /\ Cardinality(W) = 3
    /\ Cardinality(R \ frame.entry.R) >= 2
    /\ \E w \in W : <<w, w>> \in R \ frame.entry.R

(***************************************************************************)
(* Properties of is_world_reachable (specification SpecReach).             *)
(***************************************************************************)
RECURSIVE WithinSteps(_, _, _)
\* the worlds at the end of a path of at most k pairs of rel from world a
WithinSteps(rel, a, k) ==
    IF k = 0 THEN {a}
    ELSE LET near == WithinSteps(rel, a, k - 1)
         IN  near \cup {p[2] : p \in {q \in rel : q[1] \in near}}

\* there is a path of at most k pairs of rel from a to b; a path of more
\* pairs than there are worlds repeats a world and can be cut short
PathWithin(rel, a, b, k) ==
    LET bound == IF k > Cardinality(ReachWorlds) THEN Cardinality(ReachWorlds) ELSE k
    IN  b \in WithinSteps(rel, a, bound)

\* C4: is_world_reachable(start, target, max_steps) returns True if and only
\* if there is a path of at most max_steps pairs of R from start to target,
\* whatever the order in which the pairs of R are iterated.
C4_BoundedReachability ==
    (pc = "idle" /\ last.op = "is_world_reachable")
        => last.ret = <<PathWithin(R, last.args[1], last.args[2], last.args[3])>>

\* C11: on a model with a pair whose endpoint is not a world, or with a
\* valuation entry for an identifier that is not a world, evaluate_formula
\* raises the invalid-model error and returns no value, whatever the formula
\* and whatever the world argument.
HasDanglingPair == \E p \in R : p[1] \notin W \/ p[2] \notin W

HasOrphanValuation == \E k \in DOMAIN V : k \notin W

C11_InvalidModelRejected ==
    (last.op = "evaluate_formula" /\ (HasDanglingPair \/ HasOrphanValuation))
        => (last.err = InvalidModel /\ last.ret = <<>>)

C11_Witness ==
    /\ last.op = "evaluate_formula"
    /\ HasOrphanValuation /\ ~HasDanglingPair
    /\ last.args[2] \in W
    /\ last.args[1].type = "Box"
    /\ last.err = InvalidModel

\* C12: on a valid model evaluate_formula_in_all_worlds returns a mapping
\* whose keys are exactly W (the empty mapping on the empty model) and whose
\* value at each world is what evaluate_formula returns there, in whatever
\* order W was iterated.
C12_AllWorlds ==
    last.op = "evaluate_formula_in_all_worlds"
        => /\ last.err = "none"
           /\ Len(last.ret) = 1
           /\ DOMAIN last.ret[1] = W
           /\ \A w \in W :
                 evaluate_formula(Self, last.args[1], w) = {Return(last.ret[1][w])}

C12_Witness ==
    /\ last.op = "evaluate_formula_in_all_worlds"
    /\ last.err = "none"
    /\ Cardinality(W) = 2
    /\ last.args[1].type = "Diamond"
    /\ \E w1 \in W, w2 \in W : last.ret[1][w1] /\ ~last.ret[1][w2]

C12_WitnessEmpty ==
    /\ last.op = "evaluate_formula_in_all_worlds"
    /\ W = {}
    /\ last.ret = <<EmptyDict>>

\* C13: get_valuation never raises.  It returns the value set_valuation last
\* stored for (world, prop) since the world was last added, and the current
\* default when there is none: pair never set, world never added, world
\* removed (and possibly added again), default changed in between.
\* Stored(w, p) is <<b>> when b is stored for (w, p) and <<>> when nothing
\* is; the second conjunct says it is exactly what the last successful
\* set_valuation(w, p, b) left, until remove_world(w) clears it.
Stored(w, p) ==
    IF w \in W /\ w \in DOMAIN V /\ p \in DOMAIN V[w] THEN <<V[w][p]>> ELSE <<>>

C13_GetValuationStep ==
    /\ IsCall("get_valuation")
          => /\ last'.err = "none"
             /\ last'.ret = IF Stored(last'.args[1], last'.args[2]) # <<>>
                             THEN Stored(last'.args[1], last'.args[2])
                             ELSE <<default_valuation>>
    /\ \A w \in WorldIds, p \in Props :
          IF IsCall("set_valuation") /\ last'.err = "none"
                /\ last'.args[1] = w /\ last'.args[2] = p
          THEN Stored(w, p)' = <<last'.args[3]>>
          ELSE IF IsCall("remove_world") /\ last'.err = "none" /\ last'.args[1] = w
          THEN Stored(w, p)' = <<>>
          ELSE Stored(w, p)' = Stored(w, p)

C13_GetValuation == [][C13_GetValuationStep]_vars

C13_Witness ==
    /\ last.op = "get_valuation"
    /\ last.args[1] \notin W
    /\ \E w \in W : Stored(w, last.args[2]) = <<FALSE>>
    /\ default_valuation
    /\ last.ret = <<TRUE>>

\* C14: set_valuation(world, prop, value) with world not in W raises the
\* not-found error and leaves W, R and V as they were; with world in W (and
\* prop a string) it returns with V[world][prop] = value, whatever was there
\* before, and with every other entry of V, W and R as they were.
C14_SetValuationStep ==
    (IsCall("set_valuation") /\ isinstance_str(last'.args[2]))
        => LET world == last'.args[1]
               prop  == last'.args[2]
               value == last'.args[3]
           IN  IF world \notin W
               THEN /\ last'.err = "ValueError"
                    /\ UNCHANGED <<W, R, V>>
               ELSE /\ last'.err = "none"
                    /\ V'[world][prop] = value
                    /\ DOMAIN V' = DOMAIN V
                    /\ DOMAIN V'[world] = DOMAIN V[world] \cup {prop}
                    /\ \A w \in DOMAIN V : w # world => V'[w] = V[w]
                    /\ \A p \in DOMAIN V[world] : p # prop => V'[world][p] = V[world][p]
                    /\ UNCHANGED <<W, R>>

C14_SetValuation == [][C14_SetValuationStep]_vars

\* q of w1 is overwritten while p of w1 and q of w2 are set and a pair exists
C14_Witness ==
    /\ last.op = "set_valuation" /\ last.err = "none"
    /\ last.args = <<"w1", "q", FALSE>>
    /\ {"w1", "w2"} \subseteq W
    /\ V["w1"] = [x \in {"p", "q"} |-> x = "p"]
    /\ "q" \in DOMAIN V["w2"] /\ V["w2"]["q"]
    /\ R # {}

\* C15: add_world(id) with id already in W changes neither W nor R nor V (the
\* values set for id stay); with id not in W it adds id to W, gives it the
\* empty valuation map, and changes nothing else.
C15_AddWorldStep ==
    (IsCall("add_world") /\ isinstance_str(last'.args[1]))
        => LET id == last'.args[1]
           IN  /\ last'.err = "none"
               /\ UNCHANGED <<R, default_valuation>>
               /\ IF id \in W
                  THEN UNCHANGED <<W, V>>
                  ELSE /\ W' = W \cup {id}
                       /\ DOMAIN V' = DOMAIN V \cup {id}
                       /\ V'[id] = EmptyDict
                       /\ \A w \in DOMAIN V : V'[w] = V[w]

C15_AddWorldIdempotent == [][C15_AddWorldStep]_vars

\* add_world of a world that has values and pairs
C15_Witness ==
    /\ last.op = "add_world" /\ last.err = "none"
    /\ last.args[1] \in W
    /\ DOMAIN V[last.args[1]] = ValProps
    /\ <<last.args[1], last.args[1]>> \in R

\* add_world of a new world next to a world that has values
C15_WitnessNew ==
    /\ last.op = "add_world" /\ last.err = "none"
    /\ V[last.args[1]] = EmptyDict
    /\ \E w \in W : V[w] # EmptyDict

\* C16: add_relation(src, dst) with src or dst not in W raises the not-found
\* error and leaves W, R and V as they were; otherwise R becomes
\* R \cup {(src, dst)} (unchanged when the pair was there) and W and V stay.
C16_AddRelationStep ==
    IsCall("add_relation")
        => LET src == last'.args[1]
               dst == last'.args[2]
           IN  /\ UNCHANGED <<W, V, default_valuation>>
               /\ IF src \notin W \/ dst \notin W
                  THEN last'.err = "ValueError" /\ R' = R
                  ELSE last'.err = "none" /\ R' = R \cup {<<src, dst>>}

C16_AddRelation == [][C16_AddRelationStep]_vars

\* a failed add_relation whose source is a world and whose target is not
C16_Witness ==
    /\ last.op = "add_relation" /\ last.err = "ValueError"
    /\ last.args[1] \in W /\ last.args[2] \notin W
    /\ R # {}

\* a successful add_relation between two worlds
C16_WitnessAdded ==
    /\ last.op = "add_relation" /\ last.err = "none"
    /\ last.args[1] # last.args[2]
    /\ <<last.args[1], last.args[2]>> \in R
    /\ Cardinality(R) = 2

\* C17: is_world_reachable(start, target, 0) returns True if and only if
\* start = target, whatever R is (self-pairs, a pair from start to target).
C17_ZeroSteps ==
    (pc = "idle" /\ last.op = "is_world_reachable" /\ last.args[3] = 0)
        => last.ret = <<last.args[1] = last.args[2]>>

\* the call returned False although R has the pair (start, target)
C17_Witness ==
    /\ pc = "idle" /\ last.op = "is_world_reachable" /\ last.args[3] = 0
    /\ <<last.args[1], last.args[2]>> \in R
    /\ <<"w3", "w3">> \in R
    /\ last.ret = <<FALSE>>

\* the call returned True for start = target
C17_WitnessSame ==
    /\ pc = "idle" /\ last.op = "is_world_reachable" /\ last.args[3] = 0
    /\ last.args[1] = last.args[2]
    /\ last.ret = <<TRUE>>

\* C18: make_relation_transitive terminates.  While the method runs every
\* step lowers a natural number (TransRank), so no run of it is infinite;
\* when the method returns, its last pass added no pair and was the only
\* such pass; and the passes that added a pair are at most as many as the
\* pairs over the worlds the relation mentioned at the call.
Mentioned(rel) == {p[1] : p \in rel} \cup {p[2] : p \in rel}

\* the number of pairs over the worlds mentioned at the call
PairBound == Cardinality(Mentioned(frame.entry.R) \X Mentioned(frame.entry.R))

\* a bound on the steps still to come: a pass takes fewer than PairBound + 2
\* steps, and each pass but the last adds one of the missing pairs
TransRank ==
    LET missing == PairBound - Cardinality(R)
        pass    == PairBound + 2
    IN  IF pc = "while"
        THEN IF frame.changed THEN (missing + 1) * pass + 1 ELSE 1
        ELSE IF pc = "for"
        THEN Cardinality(frame.todo) + 2
               + (IF frame.changed THEN (missing + 1) * pass ELSE missing * pass)
        ELSE 0

C18_Passes ==
    /\ pc \in {"while", "for"}
          => /\ pc = "for" => frame.todo \subseteq WorldIds \X WorldIds
             /\ frame.adding <= PairBound
             /\ R \subseteq Mentioned(frame.entry.R) \X Mentioned(frame.entry.R)
    /\ (pc = "idle" /\ last.op = "make_relation_transitive")
          => /\ R = frame.before
             /\ frame.passes = frame.adding + 1

C18_RankStep == (pc \in {"while", "for"}) => (TransRank' >= 0 /\ TransRank' < TransRank)

C18_Terminates == []C18_Passes /\ [][C18_RankStep]_vars

\* a call that returned after two passes that added pairs and one that did not
C18_Witness ==
    /\ pc = "idle" /\ last.op = "make_relation_transitive"
    /\ frame.adding = 2 /\ frame.passes = 3
    /\ <<"w1", "w1">> \in R /\ <<"w1", "w1">> \notin frame.entry.R

\* C19: is_world_reachable terminates, whatever cycles and self-pairs R has
\* and whatever max_steps is.  An iteration pops one entry and pushes only
\* worlds that were not in visited and now are, each once, and visited never
\* loses a world: so a world is pushed at most once after the start, and
\* every step of the search lowers a natural number (ReachRank).
ReachRank ==
    IF pc = "reach"
    THEN Len(frame.stack) + 2 * Cardinality(W \ frame.visited) + 1
    ELSE 0

C19_PushStep ==
    (pc = "reach" /\ pc' = "reach")
        => LET n      == Len(frame.stack)
               pushed == [i \in 1..(Len(frame'.stack) - (n - 1)) |->
                            frame'.stack[n - 1 + i][1]]
           IN  /\ Len(frame'.stack) >= n - 1
               /\ SubSeq(frame'.stack, 1, n - 1) = SubSeq(frame.stack, 1, n - 1)
               /\ frame.visited \subseteq frame'.visited
               /\ \A i \in DOMAIN pushed :
                     /\ pushed[i] \notin frame.visited
                     /\ pushed[i] \in frame'.visited
                     /\ \A j \in DOMAIN pushed : pushed[i] = pushed[j] => i = j

C19_RankStep == (pc = "reach") => (ReachRank' >= 0 /\ ReachRank' < ReachRank)

C19_Terminates == [][C19_PushStep /\ C19_RankStep]_vars

\* a search with the default bound that went round a cycle back to its
\* start, met the self-pair, emptied the stack and returned False
C19_Witness ==
    /\ pc = "idle" /\ last.op = "is_world_reachable"
    /\ last.args[3] = DefaultMaxSteps
    /\ last.ret = <<FALSE>>
    /\ last.args[1] \in frame.visited
    /\ <<"w3", "w3">> \in R /\ "w3" \in frame.visited
    /\ frame.stack = <<>>

\* C20: after m2 = from_dict(m.to_dict()), a call of set_valuation, add_world,
\* remove_world or add_relation on m2 leaves W, R and V of m as they were,
\* and a call on m leaves W, R and V of m2 as they were.
C20_IndependentStep ==
    (frame.restored /\ calls' = calls + 1)
        => /\ last'.args[1] = "m2" => UNCHANGED <<W, R, V>>
           /\ last'.args[1] = "m"
                 => /\ frame'.m2.W = frame.m2.W
                    /\ frame'.m2.R = frame.m2.R
                    /\ Deref(frame'.heap, frame'.m2) = Deref(frame.heap, frame.m2)

C20_SnapshotIndependent == [][C20_IndependentStep]_vars

\* C21: make_relation_transitive keeps a reflexive relation reflexive and a
\* symmetric relation symmetric (and leaves it transitive), so after
\* make_relation_reflexive, make_relation_symmetric, make_relation_transitive
\* called in that order R is an equivalence relation on W: a set of pairs of
\* worlds of W that is reflexive on W, symmetric and transitive.
IsReflexiveOn(rel, ws) == \A w \in ws : <<w, w>> \in rel

IsSymmetric(rel) == \A p \in rel : <<p[2], p[1]>> \in rel

IsEquivalenceOn(rel, ws) ==
    /\ rel \subseteq ws \X ws
    /\ IsReflexiveOn(rel, ws)
    /\ IsSymmetric(rel)
    /\ IsTransitive(rel)

C21_TransitivePreserves ==
    IsCall("make_relation_transitive")
        => /\ IsReflexiveOn(R, W) => IsReflexiveOn(R', W')
           /\ IsSymmetric(R) => IsSymmetric(R')
           /\ IsTransitive(R')

\* in SpecS5 the third call is make_relation_transitive after the two others
C21_AfterTheThree ==
    (calls = 3 /\ last.op = "make_relation_transitive") => IsEquivalenceOn(R, W)

C21_Equivalence == []C21_AfterTheThree /\ [][C21_TransitivePreserves]_vars

\* the three calls made of three worlds two classes: one world alone, and
\* two worlds joined
C21_Witness ==
    /\ calls = 3 /\ last.op = "make_relation_transitive"
    /\ Cardinality(W) = 3
    /\ Cardinality(R) = 5
    /\ IsEquivalenceOn(R, W)

\* make_relation_transitive alone, on a symmetric relation that is not
\* reflexive on W, left it symmetric and not reflexive on W
C21_WitnessSymmetric ==
    /\ calls = 1 /\ last.op = "make_relation_transitive"
    /\ Cardinality(W) = 3
    /\ IsSymmetric(R) /\ ~IsReflexiveOn(R, W)
    /\ <<"w1", "w1">> \in R /\ <<"w1", "w2">> \in R

=============================================================================
